---- MODULE Spec2Model ----
(***************************************************************************)
(* A model of the rkv LSM key-value store: the KVStore of                  *)
(* src/store/lsm_store.rs (memtable, byte counter, catalog of SSTables,    *)
(* parallel search, compaction) over the SSTable files of                  *)
(* src/sstable/sst.rs (data file + index file, binary search).             *)
(***************************************************************************)
EXTENDS Integers, Sequences, FiniteSets, TLC

VARIABLES
    memtable,    \* KVStore.memtable : HashMap<Vec<u8>, Vec<u8>>
    mem_size,    \* KVStore.mem_size : u64
    sstables,    \* KVStore.sstables : Vec<SSTable>, a sequence of file ids
    disk,        \* the files: file id -> [dat, index]
    ret,         \* the last call of the public interface and what it returned
    last_write,  \* history: per key, the last completed set or delete
    reader,      \* a get that runs beside the other calls: its position,
                 \* its clone of the catalog, its key and its result
    returned     \* the catalog handle the last sstable_compaction returned

vars == <<memtable, mem_size, sstables, disk, ret, last_write, reader, returned>>

\* what the calls of one thread on one handle leave alone
conc == <<reader, returned>>

-----------------------------------------------------------------------------
(* Bounds of the model *)

NumKeys == 2
NumValues == 2
\* the longest catalog the flushes of Spec may build
MaxSST == 2
\* the longest catalog the flushes of SpecSets may build
DeepSST == 11
\* SpecSets sets one pair alone until the catalog holds this many tables
WarmSST == 8
\* the memtable byte budget passed to KVStore::new
MaxBytes == 2
\* mem_size is a u64 that a rejected set keeps growing: calls stop above this
MaxMemSize == 4
\* the longest catalog SpecSearch hands to the parallel search
MaxCatalog == 20
\* restarts and failing flushes stop once the directory holds more tables
\* than this
MaxFiles == 1
\* the one-byte keys of the tables that are merged: <<1>> .. <<NumMergeKeys>>
NumMergeKeys == 2
\* the small staging capacities of merge_two: 0 .. MaxCap
MaxCap == 2
\* the longest catalog a compaction of sst.rs is given
MaxRoundSST == 4
\* the starting levels a compaction of sst.rs is given: 0 .. MaxStartLevel
MaxStartLevel == 1
\* the longest catalog a handle is pushed to after a compaction
MaxHandleLen == 2

-----------------------------------------------------------------------------
(* Program constants *)

\* futil::set_key writes the key length as a u16
KEY_WORD == 2
\* futil::set_value writes the value length as a u32
VALUE_WORD == 4
\* futil::set_index writes one index entry as a u64
WORD == 8
\* parallel_search uses at most 10 threads
N_THREADS == 10

\* constants::TOMBSTONE, the bytes of "~tombstone~"
TOMBSTONE == <<126, 116, 111, 109, 98, 115, 116, 111, 110, 101, 126>>

\* keys and values are byte strings (Vec<u8>)
Keys == {<<i>> : i \in 1..NumKeys}
Values == {<<i>> : i \in 1..NumValues}

-----------------------------------------------------------------------------
(* Results of calls: Option<Vec<u8>>, a panic, or a plain return *)

None == <<"None">>
Some(v) == <<"Some", v>>
Panic == <<"Panic">>
Ok == <<"Ok">>
\* an io::Error handed to the caller
Err == <<"Err">>

Min(a, b) == IF a < b THEN a ELSE b

EmptyMap == [x \in {} |-> <<>>]

\* HashMap::insert / BTreeMap::insert
MapInsert(m, k, v) == (k :> v) @@ m

\* HashMap::remove
MapRemove(m, k) == [x \in (DOMAIN m) \ {k} |-> m[x]]

\* HashMap::extend: the entries of h replace those of m
MapExtend(m, h) == h @@ m

-----------------------------------------------------------------------------
(* Byte strings and their order *)

\* Ord::cmp on Vec<u8>: -1 (Less), 0 (Equal), 1 (Greater), bytewise
RECURSIVE BytesCmp(_, _)
BytesCmp(a, b) ==
    IF a = <<>> THEN (IF b = <<>> THEN 0 ELSE -1)
    ELSE IF b = <<>> THEN 1
    ELSE IF Head(a) < Head(b) THEN -1
    ELSE IF Head(a) > Head(b) THEN 1
    ELSE BytesCmp(Tail(a), Tail(b))

\* the least key of a non-empty set
MinKey(S) == CHOOSE k \in S : \A o \in S : BytesCmp(k, o) <= 0

\* the keys of S in descending order
RECURSIVE SortedKeys_descending(_)
SortedKeys_descending(S) ==
    IF S = {} THEN <<>>
    ELSE LET k == MinKey(S) IN SortedKeys_descending(S \ {k}) \o <<k>>

\* the iteration order of a BTreeMap: its keys ascending
RECURSIVE SortedKeys(_)
SortedKeys(S) ==
    IF S = {} THEN <<>>
    ELSE LET k == MinKey(S) IN <<k>> \o SortedKeys(S \ {k})

-----------------------------------------------------------------------------
(* SSTable files (sst.rs, futil.rs) *)

\* a file pair just created by open() with create = true
EmptyFile == [dat |-> <<>>, index |-> <<>>]

\* bytes of one record: u16 key_len | key | u32 val_len | value
RecordSize(r) == KEY_WORD + Len(r[1]) + VALUE_WORD + Len(r[2])

\* the length in bytes of a data file holding the records dat
RECURSIVE DataLen(_)
DataLen(dat) ==
    IF dat = <<>> THEN 0
    ELSE RecordSize(Head(dat)) + DataLen(Tail(dat))

\* a write whose index entries count the records instead of the bytes
RECURSIVE WriteLoop_record_no(_, _, _)
WriteLoop_record_no(f, map, ks) ==
    IF ks = <<>> THEN f
    ELSE WriteLoop_record_no([dat |-> Append(f.dat, <<Head(ks), map[Head(ks)]>>),
                              index |-> Append(f.index, Len(f.dat))],
                             map, Tail(ks))

\* SSTable::write, one pass of its loop per key of ks
RECURSIVE WriteLoop(_, _, _)
WriteLoop(f, map, ks) ==
    IF ks = <<>> THEN f
    ELSE LET key == Head(ks)
             seek_pos == DataLen(f.dat)
         IN WriteLoop([dat |-> Append(f.dat, <<key, map[key]>>),
                       index |-> Append(f.index, seek_pos)],
                      map, Tail(ks))

\* a write that leaves the tombstones of map out
SSTable_write_live(f, map) ==
    WriteLoop(f, map, SortedKeys({k \in DOMAIN map : map[k] # TOMBSTONE}))

\* SSTable::write(map): appends every pair of map in ascending key order
\* (sst.rs takes a BTreeMap; the store hands it its memtable)
SSTable_write(f, map) == WriteLoop(f, map, SortedKeys(DOMAIN map))

\* futil::get_index_range: the positions [0, N) of the index file
get_index_range(f) == <<0, Len(f.index)>>

\* the record of dat that starts at byte offset off
RecordAtOffset(dat, off) ==
    LET i == CHOOSE i \in 1..Len(dat) : DataLen(SubSeq(dat, 1, i - 1)) = off
    IN dat[i]

\* futil::key_value_at(pos): the index entry at pos, then the record it names
key_value_at(f, pos) == RecordAtOffset(f.dat, f.index[pos + 1])

\* SSTable::search, its while loop
RECURSIVE SearchLoop(_, _, _, _)
SearchLoop(f, key, start, end) ==
    IF ~(start < end) THEN None
    ELSE LET mid == start + ((end - start) \div 2)
             kv == key_value_at(f, mid)
             c == BytesCmp(key, kv[1])
         IN IF c < 0 THEN SearchLoop(f, key, start, mid)
            ELSE IF c > 0 THEN SearchLoop(f, key, mid + 1, end)
            ELSE IF kv[2] = TOMBSTONE THEN None
            ELSE IF mid + 1 < end
                 THEN IF key_value_at(f, mid + 1)[1] # key
                      THEN Some(kv[2])
                      ELSE SearchLoop(f, key, mid + 1, end)
                 ELSE Some(kv[2])

\* a search that starts after the first record
SSTable_search_from_one(f, key) ==
    SearchLoop(f, key, 1, get_index_range(f)[2])

\* SSTable::search(key) on the files f
SSTable_search(f, key) ==
    LET range == get_index_range(f)
    IN SearchLoop(f, key, range[1], range[2])

\* SSTable::as_hashmap, its scan of the data file from record i on
RECURSIVE AsHashmapLoop(_, _, _)
AsHashmapLoop(dat, i, hashmap) ==
    IF i > Len(dat) THEN hashmap
    ELSE LET key_ == dat[i][1]
             value_ == dat[i][2]
         IN AsHashmapLoop(dat, i + 1,
                IF value_ # TOMBSTONE THEN MapInsert(hashmap, key_, value_)
                ELSE hashmap)

\* SSTable::as_hashmap: every record of the file whose value is no tombstone
SSTable_as_hashmap(f) == AsHashmapLoop(f.dat, 1, EmptyMap)

-----------------------------------------------------------------------------
(* The parallel search of the catalog (lsm_store.rs, parallel_search) *)

\* Every pass of a worker's loop runs under the last_index mutex, so a run of
\* parallel_search is a sequence of whole passes.  The workers run one after
\* the other, in spawn order or the last spawned first.
Schedules == {"spawn", "reverse"}

WorkerOrder(n_threads, sched) ==
    [p \in 1..n_threads |-> IF sched = "spawn" THEN p - 1 ELSE n_threads - p]

\* the shared result and last_index before any worker ran
NoHit == [result |-> None, last_index |-> None]

\* one worker: the loop over its chunk, from position j of the chunk on.
\* Each pass holds the last_index lock from its first line to its end.
RECURSIVE WorkerLoop(_, _, _, _, _, _)
WorkerLoop(files, key, start, end, j, st) ==
    IF start + j >= end THEN st
    ELSE IF st.last_index # None /\ st.last_index[2] >= start + j THEN st
    ELSE LET value == SSTable_search(files[start + j + 1], key)
         IN IF value # None
            THEN IF value[2] = TOMBSTONE THEN st
                 ELSE [result |-> value, last_index |-> Some(start + j)]
            ELSE WorkerLoop(files, key, start, end, j + 1, st)

\* the workers, one after the other in the given order
RECURSIVE RunWorkers(_, _, _, _, _)
RunWorkers(files, key, chunk_size, order, st) ==
    IF order = <<>> THEN st
    ELSE LET start == Head(order) * chunk_size
             end == Min(start + chunk_size, Len(files))
         IN RunWorkers(files, key, chunk_size, Tail(order),
                       WorkerLoop(files, key, start, end, 0, st))

\* n_threads for a catalog of n tables
Threads(n) == Min(n, N_THREADS)

\* chunk_size for a catalog of n tables, n >= 1
ChunkSize(n) == (n + Threads(n) - 1) \div Threads(n)

\* start of worker i
SliceStart(n, i) == i * ChunkSize(n)

\* end of worker i
SliceEnd(n, i) == Min(SliceStart(n, i) + ChunkSize(n), n)

\* whether some worker's slice sstables[start..end] has start > end
\* (the worker panics, and the join's expect panics in turn)
BadSlice(n_sstables, n_threads, chunk_size) ==
    \E i \in 0..(n_threads - 1) :
        i * chunk_size > Min(i * chunk_size + chunk_size, n_sstables)

\* parallel_search(sstables, k) over the files of the catalog
parallel_search(files, key, sched) ==
    LET n_sstables == Len(files)
        n_threads == Min(n_sstables, N_THREADS)
    IN IF n_threads = 0 THEN Panic  \* (n + 0 - 1) / 0
       ELSE LET chunk_size == (n_sstables + n_threads - 1) \div n_threads
            IN IF BadSlice(n_sstables, n_threads, chunk_size) THEN Panic
               ELSE RunWorkers(files, key, chunk_size,
                               WorkerOrder(n_threads, sched), NoHit).result

-----------------------------------------------------------------------------
(* The store (lsm_store.rs, KVStore) *)

\* the files of an SSTable of the catalog.  Every table of the catalog was
\* made by create_sstable with create = true, so opening a table whose files
\* are gone makes them anew, empty
FileOf(id) == IF id \in DOMAIN disk THEN disk[id] ELSE EmptyFile

\* the files of the catalog, oldest first
CatalogFiles == [i \in 1..Len(sstables) |-> FileOf(sstables[i])]

\* the names in use: the files of the directory and the tables of the catalog
UsedIds == DOMAIN disk \cup {sstables[i] : i \in 1..Len(sstables)}

\* create_sstable: a file name with a fresh uuid
FreshId ==
    CHOOSE i \in 0..Cardinality(UsedIds) :
        /\ i \notin UsedIds
        /\ \A j \in 0..(i - 1) : j \in UsedIds

\* KVStore::is_overflow for a byte count
is_overflow(size) == MaxBytes < size

\* get(k) without the tombstone test on the memtable entry
KVStore_get_unmasked(k, sched) ==
    IF k \in DOMAIN memtable THEN Some(memtable[k])
    ELSE parallel_search(CatalogFiles, k, sched)

\* KVStore::get(k)
KVStore_get(k, sched) ==
    IF k \in DOMAIN memtable
    THEN IF memtable[k] = TOMBSTONE THEN None ELSE Some(memtable[k])
    ELSE parallel_search(CatalogFiles, k, sched)

\* every result get(k) can have in the current state
GetResults(k) == {KVStore_get(k, sched) : sched \in Schedules}

\* KVStore::get_sstables_count
get_sstables_count == Len(sstables)

\* KVStore::size
size == mem_size

\* the record of a call: n is the number of tables a compaction was given
Call(op, k, res) ==
    [op |-> op, key |-> k, res |-> res,
     n |-> IF op = "compaction" THEN Len(sstables) ELSE 0]

\* get(k): reads only
Get(k) ==
    /\ \E sched \in Schedules : ret' = Call("get", k, KVStore_get(k, sched))
    /\ UNCHANGED <<memtable, mem_size, sstables, disk, last_write, conc>>

\* set(k, v), rejected: the pair overflows an empty memtable (panic, after the
\* byte counter was raised)
SetPanic(k, v) ==
    LET new_size == mem_size + Len(k) + Len(v)
    IN /\ is_overflow(new_size) /\ DOMAIN memtable = {}
       /\ new_size <= MaxMemSize
       /\ mem_size' = new_size
       /\ ret' = Call("set", k, Panic)
       /\ UNCHANGED <<memtable, sstables, disk, last_write, conc>>

\* set(k, v) that overflows: flush_memtable, then the insert
SetFlush(k, v, cap) ==
    LET new_size == mem_size + Len(k) + Len(v)
        id == FreshId
    IN /\ is_overflow(new_size) /\ DOMAIN memtable # {}
       /\ Len(sstables) < cap
       /\ disk' = (id :> SSTable_write(EmptyFile, memtable)) @@ disk
       /\ sstables' = Append(sstables, id)
       /\ memtable' = MapInsert(EmptyMap, k, v)
       /\ mem_size' = 0
       /\ ret' = Call("set", k, Ok)
       /\ last_write' = [last_write EXCEPT ![k] = <<"Set", v>>]
       /\ UNCHANGED conc

\* set(k, v) within the budget: the insert alone
SetInsert(k, v) ==
    LET new_size == mem_size + Len(k) + Len(v)
    IN /\ ~is_overflow(new_size)
       /\ mem_size' = new_size
       /\ memtable' = MapInsert(memtable, k, v)
       /\ ret' = Call("set", k, Ok)
       /\ last_write' = [last_write EXCEPT ![k] = <<"Set", v>>]
       /\ UNCHANGED <<sstables, disk, conc>>

\* KVStore::set(k, v)
Set(k, v, cap) == SetPanic(k, v) \/ SetFlush(k, v, cap) \/ SetInsert(k, v)

\* the history after a delete(k) that returned
Deleted(k) ==
    [last_write EXCEPT ![k] = IF @ = <<"Never">> THEN @ ELSE <<"Del">>]

\* KVStore::delete(k)
Delete(k) ==
    IF k \in DOMAIN memtable
    THEN /\ memtable' = MapRemove(memtable, k)
         /\ ret' = Call("delete", k, Ok)
         /\ last_write' = Deleted(k)
         /\ UNCHANGED <<mem_size, sstables, disk, conc>>
    ELSE \E sched \in Schedules :
           LET found == parallel_search(CatalogFiles, k, sched)
           IN IF found = Panic
              THEN /\ ret' = Call("delete", k, Panic)
                   /\ UNCHANGED <<memtable, mem_size, sstables, disk, last_write, conc>>
              ELSE /\ memtable' = IF found # None
                                  THEN MapInsert(memtable, k, TOMBSTONE)
                                  ELSE memtable
                   /\ ret' = Call("delete", k, Ok)
                   /\ last_write' = Deleted(k)
                   /\ UNCHANGED <<mem_size, sstables, disk, conc>>

\* compaction(sstables, dir), its first loop: the maps of the tables, the
\* oldest first, each extending the store
RECURSIVE CompactionStore(_, _, _)
CompactionStore(files, i, store) ==
    IF i > Len(files) THEN store
    ELSE CompactionStore(files, i + 1,
                         MapExtend(store, SSTable_as_hashmap(files[i])))

\* a compaction that pushes the combined table and keeps the old entries
CompactedCatalog_push(combined_table) == Append(sstables, combined_table)

\* the catalog KVStore::compaction leaves: the combined table alone
CompactedCatalog(combined_table) == <<combined_table>>

\* KVStore::compaction(): one table written from all the tables of the
\* catalog, whose files are then deleted
Compaction ==
    LET store == CompactionStore(CatalogFiles, 1, EmptyMap)
        id == FreshId
        inputs == {sstables[i] : i \in 1..Len(sstables)}
        written == (id :> SSTable_write(EmptyFile, store)) @@ disk
    IN /\ disk' = [f \in (DOMAIN written) \ inputs |-> written[f]]
       /\ sstables' = CompactedCatalog(id)
       /\ ret' = Call("compaction", <<>>, Ok)
       /\ UNCHANGED <<memtable, mem_size, last_write, conc>>

-----------------------------------------------------------------------------
(* Restart, and failures of the file system *)

\* the sub-directory create_sstable writes the tables to
DataDir == "data"

\* the sub-directory discover_sstables globs
ScanDir == "dat"

\* the directory of a table file: every table is made by create_sstable
DirOf(id) == DataDir

\* the ids of S in ascending order (glob yields paths in alphabetical order)
RECURSIVE SortedIds(_)
SortedIds(S) ==
    IF S = {} THEN <<>>
    ELSE LET m == CHOOSE x \in S : \A y \in S : x <= y
         IN <<m>> \o SortedIds(S \ {m})

\* KVStore::discover_sstables: the tables of ScanDir
discover_sstables == SortedIds({id \in DOMAIN disk : DirOf(id) = ScanDir})

\* the catalog KVStore::new leaves: new calls discover_sstables as a
\* statement and drops the vector it returns
NewCatalog(discovered) == <<>>

\* KVStore::new on the directory of a store that ran before (a restart): the
\* memtable of the old instance is gone with it
Restart ==
    /\ Cardinality(DOMAIN disk) <= MaxFiles
    /\ memtable' = EmptyMap
    /\ mem_size' = 0
    /\ sstables' = NewCatalog(discover_sstables)
    /\ ret' = Call("new", <<>>, Ok)
    /\ UNCHANGED <<disk, last_write, conc>>

\* the files of a table of the catalog are deleted from outside the store
RemoveFile ==
    \E i \in 1..Len(sstables) :
        /\ sstables[i] \in DOMAIN disk
        /\ disk' = [f \in (DOMAIN disk) \ {sstables[i]} |-> disk[f]]
        /\ ret' = Call("remove_file", <<>>, Ok)
        /\ UNCHANGED <<memtable, mem_size, sstables, last_write, conc>>

\* what a failing SSTable::write leaves of the file it was writing: open()
\* made the files, j records went through, and the index entry of the next
\* one (set_index comes before write_all) may have
PartialWrites(map) ==
    LET n == Cardinality(DOMAIN map)
        whole == SSTable_write(EmptyFile, map)
    IN {[dat |-> SubSeq(whole.dat, 1, j),
         index |-> SubSeq(whole.index, 1, j + d)] :
            j \in 0..(n - 1), d \in {0, 1}}

\* the catalog after a flush_memtable whose write failed: `?` returns before
\* the push
FailedFlushCatalog(id) == sstables

\* the memtable after a flush_memtable whose write failed: `?` returns before
\* the memtable is replaced
FailedFlushMemtable == memtable

\* set(k, v) that overflows and whose flush_memtable fails in write: set
\* drops the Err and inserts
SetFlushFails(k, v) ==
    LET new_size == mem_size + Len(k) + Len(v)
        id == FreshId
    IN /\ is_overflow(new_size) /\ DOMAIN memtable # {}
       /\ new_size <= MaxMemSize
       /\ Cardinality(DOMAIN disk) <= MaxFiles
       /\ \E partial \in PartialWrites(memtable) :
             disk' = (id :> partial) @@ disk
       /\ sstables' = FailedFlushCatalog(id)
       /\ memtable' = MapInsert(FailedFlushMemtable, k, v)
       /\ mem_size' = new_size
       /\ ret' = Call("set_flush_failed", k, Ok)
       /\ last_write' = [last_write EXCEPT ![k] = <<"Set", v>>]
       /\ UNCHANGED conc

-----------------------------------------------------------------------------
(* The store of store.rs: the KVStore before the parallel search, over the
   single-file tables of sstable.rs.  Its new, set, delete and size are those
   of lsm_store.rs line for line; its flush_memtable and its search differ. *)

\* SSTable::scan, its while loop from record i on: the first record of the
\* key whose value is no tombstone
RECURSIVE ScanLoop(_, _, _)
ScanLoop(dat, i, key) ==
    IF i > Len(dat) THEN None
    ELSE IF dat[i][1] = key /\ dat[i][2] # TOMBSTONE THEN Some(dat[i][2])
    ELSE ScanLoop(dat, i + 1, key)

\* SSTable::scan(key)
SSTable_scan(f, key) == ScanLoop(f.dat, 1, key)

\* KVStore::get_from_sstable, its loop over the catalog from position i down
RECURSIVE GetFromLoop(_, _)
GetFromLoop(i, k) ==
    IF i < 1 THEN None
    ELSE LET value == SSTable_scan(FileOf(sstables[i]), k)
         IN IF value # None
            THEN IF value[2] = TOMBSTONE THEN None ELSE value
            ELSE GetFromLoop(i - 1, k)

\* KVStore::get_from_sstable(k): the tables of the catalog, the newest first
get_from_sstable(k) == GetFromLoop(Len(sstables), k)

\* KVStore::get(k) of store.rs
StoreRs_get(k) ==
    IF k \in DOMAIN memtable
    THEN IF memtable[k] = TOMBSTONE THEN None ELSE Some(memtable[k])
    ELSE get_from_sstable(k)

\* get(k) of store.rs: reads only
StoreRs_Get(k) ==
    /\ ret' = Call("get", k, StoreRs_get(k))
    /\ UNCHANGED <<memtable, mem_size, sstables, disk, last_write, conc>>

\* KVStore::delete(k) of store.rs
StoreRs_Delete(k) ==
    /\ memtable' = IF k \in DOMAIN memtable THEN MapRemove(memtable, k)
                   ELSE IF get_from_sstable(k) # None
                   THEN MapInsert(memtable, k, TOMBSTONE)
                   ELSE memtable
    /\ ret' = Call("delete", k, Ok)
    /\ last_write' = Deleted(k)
    /\ UNCHANGED <<mem_size, sstables, disk, conc>>

\* the file flush_memtable of store.rs leaves when the writes of the keys of
\* written went through and the others returned Err (logged, and the loop
\* goes on): one record per written key, in ascending key order
LoggedWrites(map, written) ==
    LET ks == SortedKeys(written)
    IN [dat |-> [i \in 1..Len(ks) |-> <<ks[i], map[ks[i]]>>], index |-> <<>>]

\* set(k, v) of store.rs that overflows: flush_memtable, whose writes of the
\* keys outside written fail, then the insert.  The table is pushed and the
\* memtable replaced whether the writes failed or not.
StoreRs_SetFlush(k, v, written) ==
    LET new_size == mem_size + Len(k) + Len(v)
        id == FreshId
    IN /\ is_overflow(new_size) /\ DOMAIN memtable # {}
       /\ Len(sstables) < MaxSST
       /\ written \subseteq DOMAIN memtable
       /\ disk' = (id :> LoggedWrites(memtable, written)) @@ disk
       /\ sstables' = Append(sstables, id)
       /\ memtable' = MapInsert(EmptyMap, k, v)
       /\ mem_size' = 0
       /\ ret' = Call(IF written = DOMAIN memtable THEN "set"
                      ELSE "set_flush_failed", k, Ok)
       /\ last_write' = [last_write EXCEPT ![k] = <<"Set", v>>]
       /\ UNCHANGED conc

\* compaction(sstables, dir) of store.rs, called by KVStore::compaction: the
\* pairs of the tables are written in ascending key order until a write
\* returns Err, which is logged; written counts the writes that went
\* through.  The tables of the catalog are deleted and the new table replaces
\* them whether a write failed or not.
StoreRs_Compaction(written) ==
    LET store == CompactionStore(CatalogFiles, 1, EmptyMap)
        keys == SortedKeys(DOMAIN store)
        id == FreshId
        inputs == {sstables[i] : i \in 1..Len(sstables)}
        sstable == LoggedWrites(store, {keys[i] : i \in 1..written})
    IN /\ written \in 0..Len(keys)
       /\ disk' = [f \in (DOMAIN disk \cup {id}) \ inputs |->
                      IF f = id THEN sstable ELSE disk[f]]
       /\ sstables' = <<id>>
       /\ ret' = [op |-> IF written = Len(keys) THEN "compaction"
                         ELSE "compaction_write_failed",
                  key |-> <<>>, res |-> Ok, n |-> Len(sstables)]
       /\ UNCHANGED <<memtable, mem_size, last_write, conc>>

-----------------------------------------------------------------------------
(* The compaction of sst.rs: tables that carry a level, merged pair by pair.
   A table of this layer is named <<level, uuid>>, as its file name
   "<level>-<uuid>.rkv" is. *)

\* SSTable::get_level
get_level(id) == id[1]

\* the files of the table id in the directory d (opened with create = true)
OpenIn(d, id) == IF id \in DOMAIN d THEN d[id] ELSE EmptyFile

\* Uuid::new_v4: a uuid that no name of used holds
NewUuid(used) ==
    CHOOSE u \in 0..Cardinality(used) :
        /\ \A id \in used : id[2] # u
        /\ \A w \in 0..(u - 1) : \E id \in used : id[2] = w

\* create_sstable(level, name, dir): a new table one level above level
create_sstable(level, used) ==
    LET this_level == level + 1
    IN <<this_level, NewUuid(used)>>

\* merge_two stages the record of new when both inputs hold the key
EqualPick_old(okv, nkv) == okv

EqualPick(okv, nkv) == nkv

\* merge_two empties the staging map after it has written it
AfterFlush_keep(map) == map

AfterFlush(map) == EmptyMap

\* merge_two, after a record was staged: the staging map is written to the
\* merged table and cleared when it holds more than log_size records.
\* The result is <<map, merged>>.
StageFlush(map, merged, log_size) ==
    IF Cardinality(DOMAIN map) > log_size
    THEN <<AfterFlush(map), SSTable_write(merged, map)>>
    ELSE <<map, merged>>

\* merge_two, its third loop: the records of new from j on, then the last write
RECURSIVE MergeNew(_, _, _, _, _)
MergeNew(n, j, map, merged, log_size) ==
    IF j < get_index_range(n)[2]
    THEN LET nkv == key_value_at(n, j)
             st == StageFlush(MapInsert(map, nkv[1], nkv[2]), merged, log_size)
         IN MergeNew(n, j + 1, st[1], st[2], log_size)
    ELSE SSTable_write(merged, map)

\* merge_two, its second loop: the records of old from i on
RECURSIVE MergeOld(_, _, _, _, _, _, _)
MergeOld(o, n, i, j, map, merged, log_size) ==
    IF i < get_index_range(o)[2]
    THEN LET okv == key_value_at(o, i)
             st == StageFlush(MapInsert(map, okv[1], okv[2]), merged, log_size)
         IN MergeOld(o, n, i + 1, j, st[1], st[2], log_size)
    ELSE MergeNew(n, j, map, merged, log_size)

\* merge_two, its first loop: while both inputs have records, the lesser key
\* is staged, and the record of new when the keys are equal
RECURSIVE MergeBoth(_, _, _, _, _, _, _)
MergeBoth(o, n, i, j, map, merged, log_size) ==
    IF i < get_index_range(o)[2] /\ j < get_index_range(n)[2]
    THEN LET okv == key_value_at(o, i)
             nkv == key_value_at(n, j)
             c == BytesCmp(okv[1], nkv[1])
             kv == IF c < 0 THEN okv
                   ELSE IF c = 0 THEN EqualPick(okv, nkv)
                   ELSE nkv
             st == StageFlush(MapInsert(map, kv[1], kv[2]), merged, log_size)
         IN MergeBoth(o, n, IF c <= 0 THEN i + 1 ELSE i,
                      IF c >= 0 THEN j + 1 ELSE j, st[1], st[2], log_size)
    ELSE MergeOld(o, n, i, j, map, merged, log_size)

\* merge_two(sstable_old, sstable_new, merged_sstable, log_size): the files of
\* the merged table after the call
merge_two(sstable_old, sstable_new, merged_sstable, log_size) ==
    MergeBoth(sstable_old, sstable_new, 0, 0, EmptyMap, merged_sstable, log_size)

\* the staging capacity merge_sstables hands to merge_two
MERGE_LOG_SIZE == 1000

\* merge_sstables, a pair of chunks(2): pair[0] is the old table, pair[1] the new
PairOrder_swapped(a, b) == <<b, a>>

PairOrder(a, b) == <<a, b>>

\* merge_sstables, its loop over chunks(2) from position p of the catalog on:
\* a pair is merged into a new table and its two inputs are deleted, a last
\* single table is pushed as it is.  The result is the new catalog and the
\* directory.
RECURSIVE MergeChunks(_, _, _, _, _)
MergeChunks(cat, d, p, merged_sstables, level) ==
    IF p > Len(cat) THEN [sstables |-> merged_sstables, disk |-> d]
    ELSE IF p = Len(cat)
    THEN [sstables |-> Append(merged_sstables, cat[p]), disk |-> d]
    ELSE LET pair == PairOrder(cat[p], cat[p + 1])
             used == DOMAIN d \cup {cat[i] : i \in 1..Len(cat)}
                              \cup {merged_sstables[i] : i \in 1..Len(merged_sstables)}
             merged == create_sstable(level, used)
             files == merge_two(OpenIn(d, pair[1]), OpenIn(d, pair[2]),
                                EmptyFile, MERGE_LOG_SIZE)
             kept == [id \in DOMAIN d \ {pair[1], pair[2]} |-> d[id]]
         IN MergeChunks(cat, (merged :> files) @@ kept, p + 2,
                        Append(merged_sstables, merged), level)

\* merge_sstables(sstables, name, dir, level): one round
merge_sstables(cat, d, level) == MergeChunks(cat, d, 1, <<>>, level)

\* sstable_compaction goes on while the catalog holds more than one table
MoreRounds_two(cat) == Len(cat) > 2

MoreRounds(cat) == Len(cat) > 1

\* sstable_compaction, its while loop: the level is raised, then one round
RECURSIVE CompactionLoop(_, _, _)
CompactionLoop(cat, d, level) ==
    IF MoreRounds(cat)
    THEN LET r == merge_sstables(cat, d, level + 1)
         IN CompactionLoop(r.sstables, r.disk, level + 1)
    ELSE [sstables |-> cat, disk |-> d]

\* sstable_compaction(shared_sstables, name, level, dir)
sstable_compaction(cat, d, level) == CompactionLoop(cat, d, level)

\* no call of sstable_compaction has returned yet
NoHandle == [arc |-> "none", vec |-> <<>>]

\* the handle sstable_compaction returns: Arc::new(Mutex::new(merged_sstables)),
\* a new Arc that holds the vector the thread copied out of the catalog
ReturnedHandle(merged_sstables) == [arc |-> "new", vec |-> merged_sstables]

\* a get that has not started, or has returned res
IdleReader(res) == [pc |-> "idle", snapshot |-> <<>>, key |-> <<>>, res |-> res]

\* a call of sstable_compaction on the catalog with the starting level level
SSTCompaction(level) ==
    LET r == sstable_compaction(sstables, disk, level)
    IN /\ sstables' = r.sstables
       /\ disk' = r.disk
       /\ ret' = [op |-> "sstable_compaction", key |-> <<>>, res |-> Ok,
                  n |-> Len(sstables)]
       /\ returned' = ReturnedHandle(r.sstables)
       /\ UNCHANGED <<memtable, mem_size, last_write, reader>>

\* one pass of the while loop of sstable_compaction: the level is raised,
\* then merge_sstables replaces the catalog.  The call record keeps the level
\* the loop has reached and the length of the catalog the round was given.
MergeRound(level) ==
    LET r == merge_sstables(sstables, disk, level)
    IN /\ sstables' = r.sstables
       /\ disk' = r.disk
       /\ ret' = [op |-> "merge_sstables", key |-> <<>>, res |-> level,
                  n |-> Len(sstables)]
       /\ UNCHANGED <<memtable, mem_size, last_write, conc>>

\* the level the loop of sstable_compaction has reached: the starting level
\* before the first round
LoopLevels == IF ret.op = "merge_sstables" THEN {ret.res} ELSE 0..MaxStartLevel

\* sstable_compaction round by round, while its loop goes on
LoopRound ==
    /\ MoreRounds(sstables)
    /\ \E level \in LoopLevels : MergeRound(level + 1)

\* one pass of the loop in which merge_two returns Err for the pair p of
\* chunks(2): the pairs before p were merged and their inputs deleted, the
\* unwrap of the Err panics, and the thread dies before merge_sstables
\* returns, so the catalog behind the lock is never assigned
RoundFails(level, p) ==
    /\ p \in 1..(Len(sstables) \div 2)
    /\ disk' = merge_sstables(SubSeq(sstables, 1, 2 * (p - 1)), disk, level).disk
    /\ ret' = [op |-> "sstable_compaction_panic", key |-> <<>>, res |-> Panic,
               n |-> Len(sstables)]
    /\ UNCHANGED <<memtable, mem_size, sstables, last_write, conc>>

\* the thread of sstable_compaction has died in a merge
Dead == ret.op = "sstable_compaction_panic"

\* a round of the loop that fails in one of its pairs
LoopRoundFails ==
    /\ MoreRounds(sstables)
    /\ \E level \in LoopLevels, p \in 1..(MaxRoundSST \div 2) :
          RoundFails(level + 1, p)

\* get(key) of a store whose catalog is behind a lock, its first step: the
\* lock is taken, the catalog is cloned, and the lock is released
ReaderSnapshot(key) ==
    /\ reader.pc = "idle"
    /\ reader' = [pc |-> "search", snapshot |-> sstables, key |-> key,
                  res |-> None]
    /\ UNCHANGED <<memtable, mem_size, sstables, disk, ret, last_write, returned>>

\* the files the tables of a clone of the catalog open
SnapshotFiles(snapshot) ==
    [i \in 1..Len(snapshot) |-> OpenIn(disk, snapshot[i])]

\* get(key), its second step: parallel_search on the clone
ReaderSearch(sched) ==
    /\ reader.pc = "search"
    /\ reader' = IdleReader(parallel_search(SnapshotFiles(reader.snapshot),
                                            reader.key, sched))
    /\ UNCHANGED <<memtable, mem_size, sstables, disk, ret, last_write, returned>>

\* a call of SSTable::search(key) on the table at position i of the catalog
Search(i, key) ==
    /\ ret' = [op |-> "search", key |-> key,
               res |-> SSTable_search(OpenIn(disk, sstables[i]), key), n |-> i]
    /\ UNCHANGED <<memtable, mem_size, sstables, disk, last_write, conc>>

-----------------------------------------------------------------------------
(* Specifications *)

\* KVStore::new on an empty directory
Init ==
    /\ memtable = EmptyMap
    /\ mem_size = 0
    /\ sstables = <<>>
    /\ disk = EmptyMap
    /\ ret = [op |-> "new", key |-> <<>>, res |-> Ok, n |-> 0]
    /\ last_write = [k \in Keys |-> <<"Never">>]
    /\ reader = IdleReader(None)
    /\ returned = NoHandle

Next ==
    \/ \E k \in Keys, v \in Values : Set(k, v, MaxSST)
    \/ \E k \in Keys : Get(k)
    \/ \E k \in Keys : Delete(k)
    \/ Compaction

Spec == Init /\ [][Next]_vars

\* a workload of sets alone, which builds a long catalog: the same pair is
\* set until the catalog holds WarmSST tables, any pair after that.  No set of
\* this workload finds the memtable empty and over the budget (SetPanic).
WorkloadKeys == IF Len(sstables) < WarmSST THEN {<<1>>} ELSE Keys
WorkloadValues == IF Len(sstables) < WarmSST THEN {<<1>>} ELSE Values

NextSets ==
    \/ \E k \in WorkloadKeys, v \in WorkloadValues :
          SetFlush(k, v, DeepSST) \/ SetInsert(k, v)
    \/ \E k \in Keys : Get(k)

SpecSets == Init /\ [][NextSets]_vars

\* the store restarted on its directory, without compaction
NextRestart ==
    \/ \E k \in Keys, v \in Values : Set(k, v, MaxSST)
    \/ \E k \in Keys : Get(k)
    \/ \E k \in Keys : Delete(k)
    \/ Restart

SpecRestart == Init /\ [][NextRestart]_vars

\* the store on a file system that fails, without compaction
NextFaults ==
    \/ \E k \in Keys, v \in Values : Set(k, v, MaxSST)
    \/ \E k \in Keys : Get(k)
    \/ \E k \in Keys : Delete(k)
    \/ \E k \in Keys, v \in Values : SetFlushFails(k, v)
    \/ RemoveFile

SpecFaults == Init /\ [][NextFaults]_vars

\* the store of store.rs on a file system whose writes may fail
NextStoreRs ==
    \/ \E k \in Keys, v \in Values : SetPanic(k, v) \/ SetInsert(k, v)
    \/ \E k \in Keys, v \in Values :
          \E written \in SUBSET (DOMAIN memtable) : StoreRs_SetFlush(k, v, written)
    \/ \E k \in Keys : StoreRs_Get(k)
    \/ \E k \in Keys : StoreRs_Delete(k)
    \/ \E written \in 0..NumKeys : StoreRs_Compaction(written)

SpecStoreRs == Init /\ [][NextStoreRs]_vars

\* the table a flush writes from a memtable that holds one pair
OnePairTable(k, v) == SSTable_write(EmptyFile, MapInsert(EmptyMap, k, v))

\* the parallel search on catalogs of 1 to MaxCatalog tables of one pair each,
\* as sets and flushes build them: table p holds <<1>> -> <<1>>, the newer table
\* q holds <<1>> -> <<2>> (one table holds <<1>> when p = q), the others hold
\* <<2>> -> <<1>>, and the pair left in the memtable was deleted
InitSearch ==
    \E n \in 1..MaxCatalog, p \in 1..MaxCatalog, q \in 1..MaxCatalog :
        /\ p <= q /\ q <= n
        /\ memtable = EmptyMap
        /\ mem_size = 0
        /\ sstables = [i \in 1..n |-> i - 1]
        /\ disk = [id \in 0..(n - 1) |->
                      IF id + 1 = q THEN OnePairTable(<<1>>, <<2>>)
                      ELSE IF id + 1 = p THEN OnePairTable(<<1>>, <<1>>)
                      ELSE OnePairTable(<<2>>, <<1>>)]
        /\ ret = [op |-> "delete", key |-> <<2>>, res |-> Ok, n |-> 0]
        /\ last_write = [k \in Keys |->
                            IF k = <<1>> THEN <<"Set", <<2>>>> ELSE <<"Del">>]
        /\ reader = IdleReader(None)
        /\ returned = NoHandle

NextSearch == \E k \in Keys : Get(k)

SpecSearch == InitSearch /\ [][NextSearch]_vars

\* a call of merge_two as the tests of sst.rs make it: the two oldest tables
\* of the catalog are merged into a new table, which joins no catalog, and
\* the inputs stay
MergeTwo(log_size) ==
    LET o == sstables[1]
        n == sstables[2]
        m == create_sstable(get_level(n),
                            DOMAIN disk \cup {sstables[i] : i \in 1..Len(sstables)})
    IN /\ Len(sstables) >= 2
       /\ DOMAIN disk \subseteq {sstables[i] : i \in 1..Len(sstables)}
       /\ disk' = (m :> merge_two(OpenIn(disk, o), OpenIn(disk, n), EmptyFile,
                                  log_size)) @@ disk
       /\ ret' = [op |-> "merge_two", key |-> <<>>, res |-> m, n |-> log_size]
       /\ UNCHANGED <<memtable, mem_size, sstables, last_write, conc>>

\* keys whose bytewise order is not the order of their lengths
MergeKeys == {<<i>> : i \in 1..NumMergeKeys} \cup {<<1, 0>>}

\* the keys of the tables a compaction is given: <<1>> is a prefix of <<1, 0>>
RoundKeys == {<<1>>, <<1, 0>>}

\* the staging capacities of merge_two: 0 as in the tests, small ones, and
\* the one of merge_sstables
Caps == 0..MaxCap \cup {MERGE_LOG_SIZE}

\* what a table can hold of a set of keys: each key is missing, live or deleted
TableMaps(K) == UNION {[S -> {"live", "dead"}] : S \in SUBSET K}

\* the map flushed to the table at position i: its live values name the table
Content(i, tm) ==
    [k \in DOMAIN tm |-> IF tm[k] = "live" THEN <<i>> ELSE TOMBSTONE]

\* a catalog of n level-1 tables that flushes wrote, the oldest first
Catalog(n, tms) ==
    /\ memtable = EmptyMap
    /\ mem_size = 0
    /\ sstables = [i \in 1..n |-> <<1, i - 1>>]
    /\ disk = [id \in {<<1, i - 1>> : i \in 1..n} |->
                  SSTable_write(EmptyFile, Content(id[2] + 1, tms[id[2] + 1]))]
    /\ ret = [op |-> "new", key |-> <<>>, res |-> Ok, n |-> 0]
    /\ last_write = [k \in Keys |-> <<"Never">>]
    /\ reader = IdleReader(None)
    /\ returned = NoHandle

\* merge_two and search on every pair of sorted tables over MergeKeys
InitMerge == \E tms \in [1..2 -> TableMaps(MergeKeys)] : Catalog(2, tms)

NextMerge ==
    \/ \E log_size \in Caps : MergeTwo(log_size)
    \/ \E i \in 1..Len(sstables), key \in MergeKeys : Search(i, key)

SpecMerge == InitMerge /\ [][NextMerge]_vars

\* sstable_compaction on every catalog of 0 to MaxRoundSST sorted tables
InitRounds ==
    \E n \in 0..MaxRoundSST :
        \E tms \in [1..n -> TableMaps(RoundKeys)] : Catalog(n, tms)

\* the compaction as one call, and round by round
NextRounds ==
    \/ \E level \in 0..MaxStartLevel : SSTCompaction(level)
    \/ LoopRound

SpecRounds == InitRounds /\ [][NextRounds]_vars

\* sstable_compaction round by round on a file system that fails: each
\* round goes through or fails in one of its pairs, and no round runs once
\* the thread has died
NextRoundFaults ==
    \/ ~Dead /\ LoopRound
    \/ ~Dead /\ LoopRoundFails

SpecRoundFaults == InitRounds /\ [][NextRoundFaults]_vars

\* gets that run beside compactions: the compaction holds the lock of the
\* catalog from its first round to its last, so it is one step for a get,
\* which holds the lock only while it clones the catalog
NextReaders ==
    \/ \E level \in 0..MaxStartLevel : SSTCompaction(level)
    \/ \E key \in RoundKeys : ReaderSnapshot(key)
    \/ \E sched \in Schedules : ReaderSearch(sched)

SpecReaders == InitRounds /\ [][NextReaders]_vars

\* the catalog seen through the handle h: the catalog that was passed in when
\* h is a clone of its Arc, the vector of its own Arc otherwise
HandleView(h) == IF h.arc = "shared" THEN sstables ELSE h.vec

\* a new level-1 table of one pair, as a flush writes it
FlushedTable ==
    create_sstable(0, DOMAIN disk \cup {sstables[i] : i \in 1..Len(sstables)}
                        \cup {returned.vec[i] : i \in 1..Len(returned.vec)})

\* after sstable_compaction returned, a table is appended to the catalog
\* through the handle that was passed in
PushShared ==
    /\ returned.arc # "none"
    /\ Len(sstables) < MaxHandleLen
    /\ sstables' = Append(sstables, FlushedTable)
    /\ disk' = (FlushedTable :> OnePairTable(<<1>>, <<1>>)) @@ disk
    /\ ret' = [op |-> "push_shared", key |-> <<>>, res |-> Ok, n |-> 0]
    /\ UNCHANGED <<memtable, mem_size, last_write, conc>>

\* after sstable_compaction returned, a table is appended to the catalog
\* through the handle it returned
PushReturned ==
    /\ returned.arc # "none"
    /\ Len(HandleView(returned)) < MaxHandleLen
    /\ IF returned.arc = "shared"
       THEN /\ sstables' = Append(sstables, FlushedTable)
            /\ returned' = returned
       ELSE /\ returned' = [returned EXCEPT !.vec = Append(@, FlushedTable)]
            /\ sstables' = sstables
    /\ disk' = (FlushedTable :> OnePairTable(<<1>>, <<1>>)) @@ disk
    /\ ret' = [op |-> "push_returned", key |-> <<>>, res |-> Ok, n |-> 0]
    /\ UNCHANGED <<memtable, mem_size, last_write, reader>>

\* the two catalog handles after a compaction: the one that was passed in
\* and the one that was returned
NextHandles ==
    \/ returned.arc = "none" /\ \E level \in 0..MaxStartLevel : SSTCompaction(level)
    \/ PushShared
    \/ PushReturned

SpecHandles == InitRounds /\ [][NextHandles]_vars

-----------------------------------------------------------------------------
(* What the SSTables of the catalog hold *)

\* the file f holds a record of key k
HoldsKey(f, k) == \E i \in 1..Len(f.dat) : f.dat[i][1] = k

\* the value of the record of key k in the file f
ValueIn(f, k) == f.dat[CHOOSE i \in 1..Len(f.dat) : f.dat[i][1] = k][2]

\* the catalog positions whose table holds k
TablesWith(k) == {i \in 1..Len(sstables) : HoldsKey(CatalogFiles[i], k)}

\* the value of k in the newest table that holds k
NewestValue(k) ==
    LET i == CHOOSE i \in TablesWith(k) : \A j \in TablesWith(k) : j <= i
    IN ValueIn(CatalogFiles[i], k)

\* k is in neither the memtable nor any table
Absent(k) == k \notin DOMAIN memtable /\ TablesWith(k) = {}

\* what get answers for a stored value
Answer(v) == IF v = TOMBSTONE THEN None ELSE Some(v)

-----------------------------------------------------------------------------
(* Claims *)

\* C1: in a workload of sets alone, get(k) returns Some(v) for the value v of
\* the most recent set(k, v), for every number of tables the flushes produced.
C1_RoundTrip ==
    (ret.op = "get" /\ last_write[ret.key][1] = "Set")
        => ret.res = Some(last_write[ret.key][2])

\* C2: once set(k, _) was followed by delete(k) with no later set(k, _),
\* get(k) returns None, whatever flushes and compactions happen.
C2_DeleteMasks ==
    (ret.op = "get" /\ last_write[ret.key] = <<"Del">>) => ret.res = None

\* C3: get(k) of a key that is in neither the memtable nor any table returns
\* None without failing, the empty catalog included.
C3_GetAbsentNone ==
    (ret.op = "get" /\ Absent(ret.key)) => ret.res = None

\* C4: delete(k) of a key that is in neither the memtable nor any table
\* completes without error, and a following get(k) returns None.
C4_DeleteAbsent ==
    [][\A k \in Keys :
         (Absent(k) /\ Delete(k))
             => (ret'.res = Ok /\ GetResults(k)' = {None})]_vars

\* C5: when the memtable holds the tombstone for k, get(k) returns None, and
\* when it holds a value v that is no tombstone, get(k) returns Some(v),
\* whatever the tables of the catalog hold for k.
C5_MemtableDecides ==
    /\ \A k \in DOMAIN memtable : GetResults(k) = {Answer(memtable[k])}
    /\ (ret.op = "get" /\ ret.key \in DOMAIN memtable)
           => ret.res = Answer(memtable[ret.key])

\* C5 witness: a get answered None from a tombstone of the memtable while a
\* table holds a live value of the key, with another key live in the memtable
\* and held with another value by a table.
C5_Witness ==
    /\ ret.op = "get" /\ ret.res = None
    /\ ret.key \in DOMAIN memtable /\ memtable[ret.key] = TOMBSTONE
    /\ TablesWith(ret.key) # {} /\ NewestValue(ret.key) # TOMBSTONE
    /\ \E k \in DOMAIN memtable :
          /\ memtable[k] # TOMBSTONE
          /\ TablesWith(k) # {} /\ NewestValue(k) # memtable[k]

\* C6: when the memtable has no entry for k and the newest table that holds k
\* holds the tombstone for k, get(k) returns None although older tables hold
\* live values of k.
C6_TombstoneShortCircuits ==
    (/\ ret.op = "get"
     /\ ret.key \notin DOMAIN memtable
     /\ TablesWith(ret.key) # {}
     /\ NewestValue(ret.key) = TOMBSTONE) => ret.res = None

\* C7: for every key, get returns the same right after a compaction() as
\* right before it.
C7_CompactionPreservesGet ==
    [][Compaction => \A k \in Keys : GetResults(k)' = GetResults(k)]_vars

\* C8: when k is in no memtable entry and in two or more tables, get(k) after
\* compaction() returns the value of the newest of them, or None when that
\* value is the tombstone.
C8_NewerWins ==
    [][Compaction =>
         \A k \in Keys :
            (k \notin DOMAIN memtable /\ Cardinality(TablesWith(k)) >= 2)
                => GetResults(k)' = {Answer(NewestValue(k))}]_vars

\* C9: after compaction() on a catalog of two or more tables,
\* sstables_count() is 1.
C9_CompactionLeavesOne ==
    (ret.op = "compaction" /\ ret.n >= 2) => get_sstables_count = 1

\* C9 witness: a compaction of two or more tables has returned.
C9_Witness ==
    ret.op = "compaction" /\ ret.n >= 2 /\ get_sstables_count = 1

\* C10: compaction() on a catalog of fewer than two tables changes neither
\* the catalog, nor the files, nor the memtable, nor the byte counter.
C10_CompactionNoOp ==
    [][(Len(sstables) < 2 /\ Compaction)
          => UNCHANGED <<sstables, disk, memtable, mem_size>>]_vars

\* the last write of k was a set(k, v) whose pair was flushed: k is out of the
\* memtable and the newest table that holds k holds v
Flushed(k) ==
    /\ last_write[k][1] = "Set"
    /\ k \notin DOMAIN memtable
    /\ TablesWith(k) # {}
    /\ NewestValue(k) = last_write[k][2]

\* the tables of a catalog, as a set
TablesOf(catalog) == {catalog[i] : i \in 1..Len(catalog)}

\* C11: when the last set(k, v) of k was flushed, a new Store made on the same
\* directory has the tables that hold k in its catalog, and get(k) returns
\* Some(v).
C11_RestartKeepsFlushed ==
    [][\A k \in Keys :
         (Flushed(k) /\ Restart)
             => /\ \A i \in TablesWith(k) : sstables[i] \in TablesOf(sstables')
                /\ GetResults(k)' = {Some(last_write[k][2])}]_vars

\* the store and the result a call leaves
Outcome(m, sz, cat, d, res) ==
    [memtable |-> m, mem_size |-> sz, sstables |-> cat, disk |-> d, res |-> res]

\* KVStore::delete(k) as a function of the current state
DeleteOutcome(k, sched) ==
    IF k \in DOMAIN memtable
    THEN Outcome(MapRemove(memtable, k), mem_size, sstables, disk, Ok)
    ELSE LET found == parallel_search(CatalogFiles, k, sched)
         IN IF found = Panic
            THEN Outcome(memtable, mem_size, sstables, disk, Panic)
            ELSE IF found # None
            THEN Outcome(MapInsert(memtable, k, TOMBSTONE), mem_size, sstables,
                         disk, Ok)
            ELSE Outcome(memtable, mem_size, sstables, disk, Ok)

\* KVStore::set(k, v) as a function of the current state
SetOutcome(k, v) ==
    LET new_size == mem_size + Len(k) + Len(v)
        id == FreshId
    IN IF is_overflow(new_size) /\ DOMAIN memtable = {}
       THEN Outcome(memtable, new_size, sstables, disk, Panic)
       ELSE IF is_overflow(new_size)
       THEN Outcome(MapInsert(EmptyMap, k, v), 0, Append(sstables, id),
                    (id :> SSTable_write(EmptyFile, memtable)) @@ disk, Ok)
       ELSE Outcome(MapInsert(memtable, k, v), new_size, sstables, disk, Ok)

\* KVStore::get(key) in the store an outcome describes
GetIn(o, key, sched) ==
    IF key \in DOMAIN o.memtable
    THEN Answer(o.memtable[key])
    ELSE parallel_search(
             [i \in 1..Len(o.sstables) |->
                 IF o.sstables[i] \in DOMAIN o.disk
                 THEN o.disk[o.sstables[i]] ELSE EmptyFile],
             key, sched)

\* what the public interface shows of an outcome: the result of the call,
\* size(), sstables_count() and the results of get
Observed(o) ==
    <<o.res, o.mem_size, Len(o.sstables),
      [key \in Keys |-> {GetIn(o, key, sched) : sched \in Schedules}]>>

\* C12: in every reachable state, delete(k) and set(k, TOMBSTONE) leave stores
\* that the public interface cannot tell apart: the same result of the call,
\* the same size(), the same sstables_count() and the same result of every
\* get.
C12_DeleteIsSetTombstone ==
    \A k \in Keys, sched \in Schedules :
        Observed(DeleteOutcome(k, sched)) = Observed(SetOutcome(k, TOMBSTONE))

\* C13: set(k, v) is rejected exactly when len(k) + len(v) of the pair alone
\* exceeds the budget, whatever the memtable and the byte counter hold.
C13_RejectedIffPairTooBig ==
    \A k \in Keys, v \in Values \cup {TOMBSTONE} :
        (SetOutcome(k, v).res = Panic) <=> (Len(k) + Len(v) > MaxBytes)

\* the bytes the entries of a memtable take: len(key) + len(value) of each
RECURSIVE MapBytes(_, _)
MapBytes(m, ks) ==
    IF ks = {} THEN 0
    ELSE LET k == CHOOSE x \in ks : TRUE
         IN Len(k) + Len(m[k]) + MapBytes(m, ks \ {k})

\* C17: in every reachable state size() is the sum of len(key) + len(value)
\* over the entries the memtable holds.
C17_SizeIsMemtableBytes == size = MapBytes(memtable, DOMAIN memtable)

\* C18: a set that is rejected leaves size(), the memtable and the catalog as
\* they were.
C18_RejectedSetChangesNothing ==
    [][\A k \in Keys, v \in Values :
         SetPanic(k, v) => UNCHANGED <<mem_size, memtable, sstables, disk>>]_vars

\* the records of a file, as a set of pairs
RecordsOf(f) == {f.dat[i] : i \in 1..Len(f.dat)}

\* the entries of a memtable, as a set of pairs
EntriesOf(m) == {<<k, m[k]>> : k \in DOMAIN m}

\* C16: a set(k, v) that returns and found the byte count plus len(k) + len(v)
\* above the budget leaves the old catalog with one new table at its tail
\* that holds exactly the entries of the old memtable, tombstones included, the
\* memtable {k -> v} and the byte counter reset; a set within the budget
\* leaves the catalog and the files alone and only inserts k -> v into the
\* memtable.
C16_SetFrame ==
    [][\A k \in Keys, v \in Values :
         (Set(k, v, MaxSST) /\ ret'.res = Ok) =>
            IF is_overflow(mem_size + Len(k) + Len(v))
            THEN /\ Len(sstables') = Len(sstables) + 1
                 /\ SubSeq(sstables', 1, Len(sstables)) = sstables
                 /\ sstables'[Len(sstables')] \notin UsedIds
                 /\ LET f == disk'[sstables'[Len(sstables')]]
                    IN /\ RecordsOf(f) = EntriesOf(memtable)
                       /\ Len(f.dat) = Cardinality(DOMAIN memtable)
                 /\ \A id \in DOMAIN disk : disk'[id] = disk[id]
                 /\ memtable' = MapInsert(EmptyMap, k, v)
                 /\ mem_size' = 0
            ELSE /\ sstables' = sstables
                 /\ disk' = disk
                 /\ memtable' = MapInsert(memtable, k, v)]_vars

\* C16 witness: a set has just flushed a memtable that held a tombstone and a
\* live value to a second table of the catalog, and holds its own pair alone.
C16_Witness ==
    /\ ret.op = "set" /\ ret.res = Ok
    /\ mem_size = 0 /\ DOMAIN memtable = {ret.key}
    /\ Len(sstables) = 2
    /\ LET f == FileOf(sstables[2])
       IN /\ \E r \in RecordsOf(f) : r[2] = TOMBSTONE
          /\ \E r \in RecordsOf(f) : r[2] # TOMBSTONE

\* the entries of the memtable before a step are in the memtable after it,
\* but for the key k the step sets
KeepsEntries(k) ==
    \A x \in DOMAIN memtable :
        /\ x \in DOMAIN memtable'
        /\ x # k => memtable'[x] = memtable[x]

\* C14: when the write of the new table fails during a flush, the flush
\* triggered from inside set included, the memtable keeps all of its entries
\* and the catalog is unchanged.
C14_FailedFlushKeepsMemtable ==
    [][ret'.op = "set_flush_failed"
          => (KeepsEntries(ret'.key) /\ sstables' = sstables)]_vars

\* C15: a get(k) that searches a table of the catalog whose files are gone
\* hands an I/O error to the caller: it answers neither None nor the value of
\* an older table.
C15_MissingFileIsError ==
    (/\ ret.op = "get"
     /\ ret.key \notin DOMAIN memtable
     /\ Len(sstables) >= 1
     /\ sstables[Len(sstables)] \notin DOMAIN disk) => ret.res = Err

\* C19: for a catalog of any length n >= 1 and under every order of the
\* workers, the parallel search returns the value of the newest table that
\* holds the key.
C19_LargestIndexWins ==
    \A k \in Keys, sched \in Schedules :
        TablesWith(k) # {}
            => parallel_search(CatalogFiles, k, sched) = Answer(NewestValue(k))

\* C20: for a catalog of any length n >= 1 the slices of the min(n, 10)
\* workers are valid ranges (start <= end <= n) and each index 0..n-1 is in
\* exactly one of them, so no search fails on slicing.
C20_SlicesPartition ==
    LET n == Len(sstables)
        workers == 0..(Threads(n) - 1)
    IN n >= 1 =>
        /\ \A i \in workers :
              SliceStart(n, i) <= SliceEnd(n, i) /\ SliceEnd(n, i) <= n
        /\ \A x \in 0..(n - 1) :
              Cardinality({i \in workers :
                              SliceStart(n, i) <= x /\ x < SliceEnd(n, i)}) = 1
        /\ \A k \in Keys, sched \in Schedules :
              parallel_search(CatalogFiles, k, sched) # Panic

-----------------------------------------------------------------------------
(* The tables of sst.rs: search, write and merge *)

\* the keys of the records of the file f
KeysOf(f) == {f.dat[i][1] : i \in 1..Len(f.dat)}

\* the keys of the records of f are strictly increasing in bytewise order
StrictlySorted(f) ==
    \A i \in 1..(Len(f.dat) - 1) : BytesCmp(f.dat[i][1], f.dat[i + 1][1]) < 0

\* what a search of k in f has to answer
Expected(f, k) ==
    IF HoldsKey(f, k) /\ ValueIn(f, k) # TOMBSTONE THEN Some(ValueIn(f, k))
    ELSE None

\* C21: on every table whose keys are strictly increasing, of 0 to 3 records,
\* search(k) answers Some(v) exactly when the table holds a record (k, v)
\* whose value is no tombstone, and None when k is missing or deleted: for
\* every table of the directory and every key, and for the search that a
\* call made.
C21_SearchFindsLiveRecord ==
    /\ \A id \in DOMAIN disk, k \in MergeKeys :
           StrictlySorted(disk[id]) =>
               SSTable_search(disk[id], k) = Expected(disk[id], k)
    /\ ret.op = "search" =>
           ret.res = Expected(OpenIn(disk, sstables[ret.n]), ret.key)

\* a search found a live record in a table of three records, one of them a
\* tombstone
C21_Witness ==
    /\ ret.op = "search" /\ ret.res # None
    /\ LET f == OpenIn(disk, sstables[ret.n])
       IN Len(f.dat) = 3 /\ \E i \in 1..3 : f.dat[i][2] = TOMBSTONE

\* the bytes of the index file of f
IndexSize(f) == WORD * Len(f.index)

\* C22: after the writes of a flush or the chunked writes of a merge, the
\* index file of every table holds one 8-byte entry per record of the data
\* file, in the order of the records, and entry i is the byte offset at which
\* record i starts.
C22_IndexNamesEveryRecord ==
    \A id \in DOMAIN disk :
        LET f == disk[id]
        IN /\ IndexSize(f) = WORD * Len(f.dat)
           /\ \A i \in 1..Len(f.dat) :
                  f.index[i] = DataLen(SubSeq(f.dat, 1, i - 1))

\* merge_two with the staging capacity 0 wrote a table of three records, one
\* write per record
C22_Witness ==
    /\ ret.op = "merge_two" /\ ret.n = 0
    /\ Len(disk[ret.res].dat) = 3

\* C23: every table the engine produces, by a write of a map of any content
\* or as the output of a merge in any round of a compaction, holds its records
\* in strictly increasing bytewise key order, so with no key twice.
C23_TablesAreSorted == \A id \in DOMAIN disk : StrictlySorted(disk[id])

\* a compaction of three tables or more left a table of two records
C23_Witness ==
    /\ ret.op = "sstable_compaction" /\ ret.n >= 3
    /\ Len(sstables) = 1 /\ Len(disk[sstables[1]].dat) = 2

\* the table out is the merge of the tables old and new: one record per key of
\* either, in ascending order, with the value of new for a key of new and the
\* value of old for the others
IsMergeOf(out, old, new) ==
    /\ KeysOf(out) = KeysOf(old) \cup KeysOf(new)
    /\ Len(out.dat) = Cardinality(KeysOf(old) \cup KeysOf(new))
    /\ StrictlySorted(out)
    /\ \A k \in KeysOf(out) :
           ValueIn(out, k) = IF HoldsKey(new, k) THEN ValueIn(new, k)
                             ELSE ValueIn(old, k)

\* C24: for two sorted tables without duplicates, merge_two writes exactly one
\* record per key of the union of their keys, in ascending bytewise order; a
\* key of one input alone keeps its value, a key of both takes the value of
\* new, also when that value is the tombstone.
C24_MergeTwoIsUnionNewWins ==
    ret.op = "merge_two" =>
        IsMergeOf(disk[ret.res], disk[sstables[1]], disk[sstables[2]])

\* merge_two merged a key that old holds live and new holds deleted, a key of
\* old alone and a key of new alone
C24_Witness ==
    /\ ret.op = "merge_two"
    /\ LET old == disk[sstables[1]]
           new == disk[sstables[2]]
       IN /\ \E k \in KeysOf(old) \cap KeysOf(new) :
                 ValueIn(old, k) # TOMBSTONE /\ ValueIn(new, k) = TOMBSTONE
          /\ KeysOf(old) \ KeysOf(new) # {}
          /\ KeysOf(new) \ KeysOf(old) # {}

\* C25: the table merge_two writes does not depend on the staging capacity:
\* the call made with one capacity left the files that every capacity (0, 1,
\* 2 and 1000, above the number of records) yields, and they are one sorted
\* run.
C25_MergeTwoIgnoresCapacity ==
    ret.op = "merge_two" =>
        /\ \A log_size \in Caps :
               merge_two(disk[sstables[1]], disk[sstables[2]], EmptyFile,
                         log_size) = disk[ret.res]
        /\ StrictlySorted(disk[ret.res])

\* merge_two with the staging capacity 1 wrote three records in two writes
C25_Witness ==
    /\ ret.op = "merge_two" /\ ret.n = 1
    /\ Len(disk[ret.res].dat) = 3

\* C26: a compaction keeps the tombstones: when the newest record of k among
\* the tables of the catalog is a tombstone, the table the compaction leaves
\* holds a tombstone record of k.
C26_CompactionKeepsTombstones ==
    [][ret'.op \in {"compaction", "sstable_compaction"} =>
         \A k \in Keys \cup RoundKeys :
            (TablesWith(k) # {} /\ NewestValue(k) = TOMBSTONE) =>
                /\ Len(sstables') = 1
                /\ HoldsKey(OpenIn(disk', sstables'[1]), k)
                /\ ValueIn(OpenIn(disk', sstables'[1]), k) = TOMBSTONE]_vars

\* the newest value of k among the tables cat of the directory d, None when
\* no table holds k
NewestIn(cat, d, k) ==
    LET holders == {i \in 1..Len(cat) : HoldsKey(OpenIn(d, cat[i]), k)}
    IN IF holders = {} THEN None
       ELSE LET i == CHOOSE i \in holders : \A j \in holders : j <= i
            IN Some(ValueIn(OpenIn(d, cat[i]), k))

\* C27: one round turns a catalog of n tables into one of ceil(n/2) tables
\* that keeps the recency order: output i is the merge of the inputs 2i-1
\* (old) and 2i (new) counted from 1, a last unpaired table passes through
\* with its files as the last entry, and for every key the newest value among
\* the tables is the one it was before the round.
C27_RoundMergesAdjacentPairs ==
    [][ret'.op = "merge_sstables" =>
         LET n == Len(sstables)
         IN /\ Len(sstables') = (n + 1) \div 2
            /\ \A i \in 1..(n \div 2) :
                   IsMergeOf(OpenIn(disk', sstables'[i]),
                             OpenIn(disk, sstables[2 * i - 1]),
                             OpenIn(disk, sstables[2 * i]))
            /\ n % 2 = 1 =>
                   /\ sstables'[Len(sstables')] = sstables[n]
                   /\ OpenIn(disk', sstables[n]) = OpenIn(disk, sstables[n])
            /\ \A k \in RoundKeys :
                   NewestIn(sstables', disk', k) = NewestIn(sstables, disk, k)]_vars

\* a round on three tables left two: a merged table of two records and the
\* third table of the catalog, a level-1 table
C27_Witness ==
    /\ ret.op = "merge_sstables" /\ ret.n = 3
    /\ Len(sstables) = 2
    /\ Len(OpenIn(disk, sstables[1]).dat) = 2
    /\ get_level(sstables[2]) = 1

\* the greater of two levels
MaxLevel(a, b) == IF a < b THEN b ELSE a

\* C28: a table that a round creates from the pair (a, b) has the level
\* max(level(a), level(b)) + 1, whatever the starting level of the compaction,
\* and a table that passes through unpaired keeps its level.
C28_MergedLevelIsMaxPlusOne ==
    [][ret'.op = "merge_sstables" =>
         LET n == Len(sstables)
         IN /\ \A i \in 1..(n \div 2) :
                   get_level(sstables'[i]) =
                       MaxLevel(get_level(sstables[2 * i - 1]),
                                get_level(sstables[2 * i])) + 1
            /\ n % 2 = 1 =>
                   get_level(sstables'[Len(sstables')]) = get_level(sstables[n])]_vars

\* C29: the loop of sstable_compaction terminates for every catalog length:
\* each round on more than one table leaves fewer tables than it was given,
\* and never none, so the length is a measure that falls until the loop
\* stops; the call returns with exactly one table when it was given one or
\* more, and with none when it was given none.
C29_CompactionTerminates ==
    [][/\ ret'.op = "merge_sstables" =>
            /\ Len(sstables') < Len(sstables)
            /\ Len(sstables') >= 1
       /\ ret'.op = "sstable_compaction" =>
            Len(sstables') = IF Len(sstables) >= 1 THEN 1 ELSE 0]_vars

\* a compaction of four tables, which takes two rounds, returned one table
C29_Witness ==
    /\ ret.op = "sstable_compaction" /\ ret.n = 4
    /\ Len(sstables) = 1

\* C30: a compaction deletes the files of an input table only after the
\* write of the table that replaces it has returned success: on every step
\* that deletes the files of a table of the catalog, no write of the
\* replacement failed, and the replacement holds every key that was to be
\* written.
C30_InputsDeletedAfterWrite ==
    [][(\E i \in 1..Len(sstables) :
            sstables[i] \in DOMAIN disk /\ sstables[i] \notin DOMAIN disk') =>
         /\ ret'.op # "compaction_write_failed"
         /\ Len(sstables') >= 1
         /\ KeysOf(OpenIn(disk', sstables'[1]))
               = DOMAIN CompactionStore(CatalogFiles, 1, EmptyMap)]_vars

\* C31: when a compaction fails part-way, no record is lost: every table of
\* the catalog whose files the step deleted has its keys in a table of the
\* catalog the store holds afterwards, and every table of that catalog has
\* its files on disk.
C31_FailedCompactionLosesNothing ==
    [][ret'.op = "sstable_compaction_panic" =>
         /\ \A j \in 1..Len(sstables') : sstables'[j] \in DOMAIN disk'
         /\ \A i \in 1..Len(sstables) :
                (sstables[i] \in DOMAIN disk /\ sstables[i] \notin DOMAIN disk') =>
                    \E j \in 1..Len(sstables') :
                        /\ sstables'[j] \in DOMAIN disk'
                        /\ KeysOf(disk[sstables[i]])
                              \subseteq KeysOf(disk'[sstables'[j]])]_vars

\* C32: no get searches a table whose files a compaction has deleted: when
\* a get searches its clone of the catalog, every table of the clone has its
\* files on disk.
C32_ReadersSeeNoDeletedTable ==
    [][(reader.pc = "search" /\ reader'.pc = "idle") =>
         \A i \in 1..Len(reader.snapshot) :
            reader.snapshot[i] \in DOMAIN disk]_vars

\* C33: the handle sstable_compaction returns is the shared state that was
\* passed in: after the call, whatever is appended through one handle is
\* seen through the other, so both show one catalog.
C33_ReturnedHandleIsShared ==
    returned.arc # "none" => HandleView(returned) = sstables

====
